---- MODULE Spec2Model ----
(***************************************************************************)
(* A model of doc-path-rag: the Markdown ingestion tool (ingest.py), its   *)
(* chunk-enrichment function chunk_markdown_file, the interactive query    *)
(* loop (bot.py) and its function format_context_with_metadata.            *)
(*                                                                         *)
(* Strings are sequences of one-character strings, so that the string      *)
(* operations of the code (lower, startswith, endswith, count, split,      *)
(* strip) are computed and not assumed. The reasoning delimiters of an     *)
(* answer and the fixed pieces of the formatter's f-string are each one    *)
(* element of such a sequence.                                             *)
(***************************************************************************)
EXTENDS Integers, Sequences, FiniteSets, TLC

VARIABLES
    \* ---- ingest.py: the ingestion tool ----
    mode,                   \* "single" (ingest_all_markdown_files) or "poll" (main_loop)
    pc,                     \* position of the running function
    fs,                     \* the files under data_folder: a set of <<directory, name>>
    markdown_files,         \* the list returned by the last find_all_markdown_files
    idx,                    \* position of the for loop in markdown_files
    vector_store,           \* the paths whose chunks add_documents has stored
    successful_ingestions,
    failed_ingestions,
    manifest,               \* what save_file_list wrote
    \* history of the run (what was printed, what happened to which file)
    fsAtScan,               \* fs as it was when markdown_files was computed
    attempted,              \* files of this scan handed to ingest_markdown_file
    everIngested,           \* files ever handed to ingest_markdown_file
    writeFailed,            \* files of this scan whose add_documents raised
    noChunks,               \* files of this scan for which chunk_markdown_file returned []
    reportedFailed,         \* files printed as "Failed to process file"
    abortedBy,              \* the file whose exception ended this polling scan early
    renamedFrom,            \* files that were renamed (their path before)
    renamedTo,              \* files that were renamed (their path after)
    scans,                  \* polling scans completed
    faults,                 \* add_documents and os.rename calls the system refused
    envOps,                 \* files removed or added by somebody else during the run
    \* ---- bot.py: the interactive query loop ----
    prompts_config,         \* what load_prompts returned: None, or the YAML mapping
    bot_pc,                 \* position of main
    prompt,                 \* main's variable prompt: the template last created
    retrieval_chain,        \* the system message the chain in use was built with
    current_prompt_type,
    last_event,             \* what the last input led to
    query,                  \* what input() returned, stripped and in lower case
    llm_answer,             \* result['answer']: the text generation returns in this run
    answer,                 \* main's variable answer: the text that is displayed
    \* ---- ingest.py: chunk_markdown_file on one document ----
    doc_lines,              \* the file's text, split on "\n"
    chunk_pc,               \* position of chunk_markdown_file
    pos,                    \* the line the splitter reads next
    header_stack,           \* the splitter's active titles: level -> title
    current_content,        \* the lines of the chunk the splitter is collecting
    current_metadata,       \* the header metadata of that chunk
    current_start,          \* the line of the document that chunk starts at
    md_header_splits,       \* the documents split_text returns
    chunks,                 \* the enriched chunks (the list chunks of line 96)
    next_uuid,              \* uuid4 never returns the same value twice
    first_uuid,             \* the first value uuid4 gives to this document
    \* ---- bot.py: format_context_with_metadata on one list of chunks ----
    docs,                   \* the argument: the retrieved chunks, in their order
    format_pc,              \* position of format_context_with_metadata
    formatted_context,      \* the list of the blocks made so far
    format_result           \* the text the function returns

ingestVars == <<mode, pc, fs, markdown_files, idx, vector_store,
                successful_ingestions, failed_ingestions, manifest, fsAtScan,
                attempted, everIngested, writeFailed, noChunks, reportedFailed,
                abortedBy, renamedFrom, renamedTo, scans, faults, envOps>>

botVars == <<prompts_config, bot_pc, prompt, retrieval_chain,
             current_prompt_type, last_event, query, llm_answer, answer>>

chunkVars == <<doc_lines, chunk_pc, pos, header_stack, current_content,
               current_metadata, current_start, md_header_splits, chunks,
               next_uuid, first_uuid>>

formatVars == <<docs, format_pc, formatted_context, format_result>>

vars == <<ingestVars, botVars, chunkVars, formatVars>>

----------------------------------------------------------------------------
(* Bounds of the model *)

MaxScans == 1
MaxFaults == 1
MaxEnvOps == 1
MaxLines == 3
MaxPriorChunks == 1
MaxEnrichLines == 2
MaxAnswerLen == 4
MaxDocs == 3

----------------------------------------------------------------------------
(* Strings *)

Range(s) == {s[i] : i \in DOMAIN s}

\* str.lower(), on the capital letters the model's file names and words use
LowerChar(c) ==
    CASE c = "B" -> "b"
      [] c = "M" -> "m"
      [] c = "D" -> "d"
      [] OTHER -> c

Lower(s) == [i \in DOMAIN s |-> LowerChar(s[i])]

StartsWith(s, pre) ==
    /\ Len(s) >= Len(pre)
    /\ SubSeq(s, 1, Len(pre)) = pre

EndsWith(s, suf) ==
    /\ Len(s) >= Len(suf)
    /\ SubSeq(s, Len(s) - Len(suf) + 1, Len(s)) = suf

DotMd == <<".", "m", "d">>
DotMarkdown == <<".", "m", "a", "r", "k", "d", "o", "w", "n">>
Underscore == <<"_">>

----------------------------------------------------------------------------
(* The files the model draws data_folder's content from *)

FilePool ==
    { <<"data", <<"a", ".", "m", "d">>>>,
      <<"data/sub/deep", <<"B", ".", "M", "D">>>>,
      <<"data/_old", <<"c", ".", "m", "a", "r", "k", "d", "o", "w", "n">>>>,
      <<"data", <<"_", "d", ".", "m", "d">>>>,
      <<"data/sub", <<"e", ".", "t", "x", "t">>>> }

\* ingest.py 20
data_folder == "data"

DirOf(p) == p[1]
NameOf(p) == p[2]

\* A faulty variant of the test of line 37: the processed marker is not looked at
IsUnprocessedMarkdownNoUnderscoreTest(file) ==
    \/ EndsWith(Lower(file), DotMd)
    \/ EndsWith(Lower(file), DotMarkdown)

\* ingest.py 37: the test of one file name
IsUnprocessedMarkdown(file) ==
    /\ \/ EndsWith(Lower(file), DotMd)
       \/ EndsWith(Lower(file), DotMarkdown)
    /\ ~StartsWith(file, Underscore)

\* ingest.py 30-40: os.walk visits every directory under the root, so every file
\* of the tree is tested; the result is a list in the traversal's order
find_all_markdown_files(files) == {p \in files : IsUnprocessedMarkdown(NameOf(p))}

\* os.walk is top-down: the root's files come before those of its
\* subdirectories; the order of the subdirectories is the operating system's
WalkOrders(S) ==
    {s \in [1..Cardinality(S) -> S] :
        /\ Range(s) = S
        /\ \A i, j \in DOMAIN s :
              (DirOf(s[i]) = data_folder /\ DirOf(s[j]) # data_folder) => i < j}

\* ingest.py 281-284, 315-318: the path a processed file is renamed to
new_file_path(p) == <<DirOf(p), Underscore \o NameOf(p)>>

----------------------------------------------------------------------------
(* ingest.py: ingest_markdown_file and the two loops that call it *)

\* What os.path.exists / TextLoader / the splitter make of the file
FileConditions == {"ok", "empty", "unreadable"}

\* ingest.py 60-67, 224-226: chunk_markdown_file returns [] for a missing file
\* (65-67), for a file the loader cannot read (the except of 224-226) and for a
\* file with no content; TRUE when it returns at least one chunk
HasChunks(p, files, cond) == p \in files /\ cond = "ok"

\* ingest.py 246-250: add_documents is called inside try/except Exception; the
\* exception is printed and ingest_markdown_file returns normally
AddDocumentsRaisesToCaller == FALSE

\* os.rename raises when the file is gone, or when the system refuses
RenameRaises(p, files, renameOk) == p \notin files \/ ~renameOk

\* One iteration of the for loop (ingest.py 274-290 or 311-320).
ProcessFile(cond, storeOk, renameOk) ==
    /\ pc = "file"
    /\ idx <= Len(markdown_files)
    \* storeOk and renameOk are the answers of calls that are made
    /\ HasChunks(markdown_files[idx], fs, cond) \/ storeOk
    /\ markdown_files[idx] \in fs \/ renameOk
    /\ faults + (IF storeOk THEN 0 ELSE 1) + (IF renameOk THEN 0 ELSE 1) <= MaxFaults
    /\ faults' = faults + (IF storeOk THEN 0 ELSE 1) + (IF renameOk THEN 0 ELSE 1)
    /\ LET p == markdown_files[idx]
           chunked == HasChunks(p, fs, cond)
           written == chunked /\ storeOk
           \* an exception that leaves ingest_markdown_file
           ingestRaises == chunked /\ ~storeOk /\ AddDocumentsRaisesToCaller
           renameRaises == ~ingestRaises /\ RenameRaises(p, fs, renameOk)
           raises == ingestRaises \/ renameRaises
           last == idx = Len(markdown_files)
       IN  /\ attempted' = attempted \cup {p}
           /\ everIngested' = everIngested \cup {p}
           /\ noChunks' = IF chunked THEN noChunks \ {p} ELSE noChunks \cup {p}
           /\ vector_store' = IF written THEN vector_store \cup {p} ELSE vector_store
           /\ writeFailed' = IF chunked /\ ~storeOk
                             THEN writeFailed \cup {p} ELSE writeFailed \ {p}
           /\ IF raises
              THEN UNCHANGED <<fs, renamedFrom, renamedTo>>
              ELSE /\ fs' = (fs \ {p}) \cup {new_file_path(p)}
                   /\ renamedFrom' = renamedFrom \cup {p}
                   /\ renamedTo' = renamedTo \cup {new_file_path(p)}
           /\ IF mode = "single"
              THEN \* 276-290: try / except Exception around one file
                   /\ successful_ingestions' =
                          IF ingestRaises THEN successful_ingestions
                          ELSE successful_ingestions + 1
                   /\ failed_ingestions' =
                          IF raises THEN failed_ingestions + 1 ELSE failed_ingestions
                   /\ reportedFailed' =
                          IF raises THEN reportedFailed \cup {p} ELSE reportedFailed
                   /\ idx' = idx + 1
                   /\ pc' = IF last THEN "done" ELSE "file"
                   /\ UNCHANGED abortedBy
              ELSE \* 304-332: the try is around the whole scan
                   /\ UNCHANGED <<successful_ingestions, failed_ingestions,
                                  reportedFailed>>
                   /\ IF raises
                      THEN /\ pc' = "handler_sleep"
                           /\ abortedBy' = abortedBy \cup {p}
                           /\ UNCHANGED idx
                      ELSE /\ idx' = idx + 1
                           /\ pc' = IF last THEN "sleep" ELSE "file"
                           /\ UNCHANGED abortedBy
    /\ UNCHANGED <<mode, markdown_files, manifest, fsAtScan, scans, envOps>>
    /\ UNCHANGED <<botVars, chunkVars, formatVars>>

\* ingest.py 256-268 (single pass) and 306-309, 321-322 (polling): discovery
Discover ==
    /\ pc = "scan"
    /\ \E order \in WalkOrders(find_all_markdown_files(fs)) :
         /\ markdown_files' = order
         /\ manifest' = IF mode = "single" /\ order # <<>> THEN order ELSE manifest
         /\ pc' = IF order # <<>> THEN "file"
                  ELSE IF mode = "single" THEN "done" ELSE "sleep"
    /\ fsAtScan' = fs
    /\ attempted' = {}
    /\ writeFailed' = {}
    /\ noChunks' = {}
    /\ abortedBy' = {}
    /\ idx' = 1
    /\ UNCHANGED <<mode, fs, vector_store, successful_ingestions,
                   failed_ingestions, everIngested, reportedFailed,
                   renamedFrom, renamedTo, scans, faults, envOps>>
    /\ UNCHANGED <<botVars, chunkVars, formatVars>>

\* ingest.py 324-325: the sleep after a scan ends and the while loop goes round
SleepDone ==
    /\ pc = "sleep"
    /\ scans < MaxScans
    /\ scans' = scans + 1
    /\ pc' = "scan"
    /\ UNCHANGED <<mode, fs, markdown_files, idx, vector_store,
                   successful_ingestions, failed_ingestions, manifest, fsAtScan,
                   attempted, everIngested, writeFailed, noChunks,
                   reportedFailed, abortedBy, renamedFrom, renamedTo, faults,
                   envOps>>
    /\ UNCHANGED <<botVars, chunkVars, formatVars>>

\* ingest.py 330-332: the sleep of the generic handler ends
HandlerSleepDone ==
    /\ pc = "handler_sleep"
    /\ scans < MaxScans
    /\ scans' = scans + 1
    /\ pc' = "scan"
    /\ UNCHANGED <<mode, fs, markdown_files, idx, vector_store,
                   successful_ingestions, failed_ingestions, manifest, fsAtScan,
                   attempted, everIngested, writeFailed, noChunks,
                   reportedFailed, abortedBy, renamedFrom, renamedTo, faults,
                   envOps>>
    /\ UNCHANGED <<botVars, chunkVars, formatVars>>

\* Where a KeyboardInterrupt raised at position q of main_loop ends: the
\* except KeyboardInterrupt of 327-329 belongs to the try of 304-325; line 332
\* is inside the except Exception clause of the same try, outside its body
InterruptLeadsTo(q) ==
    IF q \in {"scan", "file", "sleep"} THEN "stopped" ELSE "interrupt_escaped"

\* The operator interrupts main_loop. While a file is ingested the interrupt
\* may come before or after add_documents (afterWrite).
Interrupt(afterWrite) ==
    /\ mode = "poll"
    /\ pc \in {"scan", "file", "sleep", "handler_sleep"}
    /\ pc' = InterruptLeadsTo(pc)
    /\ IF pc = "file" /\ afterWrite /\ markdown_files[idx] \in fs
       THEN /\ vector_store' = vector_store \cup {markdown_files[idx]}
            /\ attempted' = attempted \cup {markdown_files[idx]}
            /\ everIngested' = everIngested \cup {markdown_files[idx]}
       ELSE UNCHANGED <<vector_store, attempted, everIngested>>
    /\ UNCHANGED <<mode, fs, markdown_files, idx, successful_ingestions,
                   failed_ingestions, manifest, fsAtScan, writeFailed, noChunks,
                   reportedFailed, abortedBy, renamedFrom, renamedTo, scans,
                   faults, envOps>>
    /\ UNCHANGED <<botVars, chunkVars, formatVars>>

Running == pc \in {"scan", "file", "sleep", "handler_sleep"}

\* Somebody else removes a file of the tree while the tool runs
EnvRemove(p) ==
    /\ Running
    /\ envOps < MaxEnvOps
    /\ p \in fs
    /\ fs' = fs \ {p}
    /\ envOps' = envOps + 1
    /\ UNCHANGED <<mode, pc, markdown_files, idx, vector_store,
                   successful_ingestions, failed_ingestions, manifest, fsAtScan,
                   attempted, everIngested, writeFailed, noChunks,
                   reportedFailed, abortedBy, renamedFrom, renamedTo, scans,
                   faults>>
    /\ UNCHANGED <<botVars, chunkVars, formatVars>>

\* Somebody drops a new file into the tree while the tool runs
EnvAdd(p) ==
    /\ Running
    /\ envOps < MaxEnvOps
    /\ p \in FilePool \ fs
    /\ fs' = fs \cup {p}
    /\ envOps' = envOps + 1
    /\ UNCHANGED <<mode, pc, markdown_files, idx, vector_store,
                   successful_ingestions, failed_ingestions, manifest, fsAtScan,
                   attempted, everIngested, writeFailed, noChunks,
                   reportedFailed, abortedBy, renamedFrom, renamedTo, scans,
                   faults>>
    /\ UNCHANGED <<botVars, chunkVars, formatVars>>

----------------------------------------------------------------------------
(* ingest.py: chunk_markdown_file *)

\* The text of a file is a list of lines; a line and a chunk's page_content
\* are strings. The lines the model builds documents from:
Hash == "#"
Space == " "
Newline == "\n"
EmptyString == <<>>

\* The grave accent of a code fence, a character that a string of this
\* language cannot hold
Backtick == "grave"

HeaderLinePool ==
    { <<"#", " ", "A">>,
      <<"#", " ", "D">>,
      <<"#", "#", " ", "B">>,
      <<"#", "#", "#", " ", "C">>,
      <<"#", "#", "#", "#", "#", "#", " ", "F">> }

TextLinePool ==
    { <<"t">>,
      <<>>,
      <<"[", "a", "]", "[", "b", "]", "(", "u", ")">>,
      <<"[", "a">>,
      <<"]", "(">> }

LinePool == HeaderLinePool \cup TextLinePool

Documents == UNION {[1..n -> LinePool] : n \in 0..MaxLines}

\* The lines of the documents with words, code fences, images, links, table
\* rows and list items
EnrichLinePool ==
    { <<"#", " ", "A">>,
      <<"#", "#", "#", "#", "#", "#", " ", "F">>,
      <<"t">>,
      <<"d", "a", "t", "a">>,
      <<"D", "a", "t", "a", ",", " ", "b", "a", "d">>,
      <<"(", "m", "o", "d", "e", ")", " ", "m", "o", "d", "3">>,
      <<Backtick, Backtick, Backtick>>,
      <<Backtick, Backtick, Backtick, "x", Backtick, Backtick, Backtick>>,
      <<"!", "[", "i", "]", "(", "u", ")">>,
      <<"[", "a", "]", "(", "u", ")">>,
      <<"|", "a", "|", "b", "|">>,
      <<"-", " ", "x">>,
      <<" ", "1", "2", ".", " ", "z">>,
      [k \in 1..34 |-> "|"] }

EnrichDocuments == UNION {[1..n -> EnrichLinePool] : n \in 0..MaxEnrichLines}

\* str.join
RECURSIVE Join(_, _)
Join(lines, sep) ==
    IF lines = <<>> THEN <<>>
    ELSE IF Len(lines) = 1 THEN lines[1]
    ELSE lines[1] \o sep \o Join(Tail(lines), sep)

\* str.split(sep) for a separator of one character
RECURSIVE SplitOn(_, _)
SplitOn(s, c) ==
    IF \A i \in DOMAIN s : s[i] # c THEN <<s>>
    ELSE LET k == CHOOSE i \in DOMAIN s :
                      s[i] = c /\ \A j \in 1..(i - 1) : s[j] # c
         IN  <<SubSeq(s, 1, k - 1)>> \o SplitOn(SubSeq(s, k + 1, Len(s)), c)

\* str.count(pat): the occurrences of pat that do not overlap, from the left
RECURSIVE CountFrom(_, _, _)
CountFrom(s, pat, i) ==
    IF i + Len(pat) - 1 > Len(s) THEN 0
    ELSE IF SubSeq(s, i, i + Len(pat) - 1) = pat
         THEN 1 + CountFrom(s, pat, i + Len(pat))
         ELSE CountFrom(s, pat, i + 1)

Count(s, pat) == CountFrom(s, pat, 1)

\* str.strip() of a line: the model's lines carry blanks only inside
IsBlank(line) == \A i \in DOMAIN line : line[i] = Space

\* A faulty variant of the table of lines 77-84: two names exchanged
headers_to_split_on_swapped ==
    << <<1, "Header 1">>, <<2, "Header 3">>, <<3, "Header 2">>,
       <<4, "Header 4">>, <<5, "Header 5">>, <<6, "Header 6">> >>

\* ingest.py 77-84: headers_to_split_on, each marker by its number of '#'
headers_to_split_on ==
    << <<1, "Header 1">>, <<2, "Header 2">>, <<3, "Header 3">>,
       <<4, "Header 4">>, <<5, "Header 5">>, <<6, "Header 6">> >>

\* A faulty variant of line 89: the splitter's default
strip_headers_true == TRUE

\* ingest.py 89
strip_headers == FALSE

\* The number of '#' a line starts with
RECURSIVE LeadingHashes(_)
LeadingHashes(line) ==
    IF line = <<>> \/ Head(line) # Hash THEN 0
    ELSE 1 + LeadingHashes(Tail(line))

\* The entry of headers_to_split_on whose marker the line starts with, the
\* marker being followed by a blank or by the end of the line; 0 when none
HeaderEntry(line) ==
    LET n == LeadingHashes(line)
    IN  IF /\ \E e \in DOMAIN headers_to_split_on : headers_to_split_on[e][1] = n
           /\ (Len(line) = n \/ line[n + 1] = Space)
        THEN CHOOSE e \in DOMAIN headers_to_split_on : headers_to_split_on[e][1] = n
        ELSE 0

IsHeaderLine(line) == HeaderEntry(line) # 0
HeaderLevelOf(line) == headers_to_split_on[HeaderEntry(line)][1]
HeaderKeyOf(line) == headers_to_split_on[HeaderEntry(line)][2]

\* The title of a header line: what follows the marker and the blank
HeaderTitleOf(line) ==
    LET n == LeadingHashes(line)
    IN  IF Len(line) <= n + 1 THEN EmptyString ELSE SubSeq(line, n + 2, Len(line))

\* The stack after a header line of level L: L is set, the deeper levels go
PushHeader(stack, level, key, title) ==
    [l \in {m \in DOMAIN stack : m < level} \cup {level} |->
        IF l = level THEN [key |-> key, title |-> title] ELSE stack[l]]

\* The metadata a chunk gets from the stack: {"Header N": title}
MetadataOf(stack) ==
    [k \in {stack[l].key : l \in DOMAIN stack} |->
        stack[CHOOSE l \in DOMAIN stack : stack[l].key = k].title]

NoStack == [l \in {} |-> 0]

\* The chunk the splitter has collected, as a document of split_text's result
Collected ==
    [page_content |-> Join(current_content, <<Newline>>),
     metadata |-> current_metadata,
     start |-> current_start]

\* split_text reads one line (ingest.py 93)
ScanLine ==
    /\ chunk_pc = "split"
    /\ pos <= Len(doc_lines)
    /\ LET line == doc_lines[pos]
       IN  IF IsHeaderLine(line)
           THEN /\ header_stack' = PushHeader(header_stack, HeaderLevelOf(line),
                                              HeaderKeyOf(line), HeaderTitleOf(line))
                /\ md_header_splits' =
                       IF current_content # <<>>
                       THEN Append(md_header_splits, Collected)
                       ELSE md_header_splits
                /\ current_content' = IF strip_headers THEN <<>> ELSE <<line>>
                /\ current_metadata' = MetadataOf(header_stack')
                /\ current_start' = pos
           ELSE IF IsBlank(line)
           THEN UNCHANGED <<header_stack, md_header_splits, current_content,
                            current_metadata, current_start>>
           ELSE /\ current_content' = Append(current_content, line)
                /\ current_start' = IF current_content = <<>> THEN pos
                                    ELSE current_start
                /\ UNCHANGED <<header_stack, md_header_splits, current_metadata>>
    /\ pos' = pos + 1
    /\ UNCHANGED <<doc_lines, chunk_pc, chunks, next_uuid, first_uuid>>
    /\ UNCHANGED <<ingestVars, botVars, formatVars>>

\* split_text returns (ingest.py 93): the last chunk is closed
FinishSplit ==
    /\ chunk_pc = "split"
    /\ pos > Len(doc_lines)
    /\ md_header_splits' =
           IF current_content # <<>>
           THEN Append(md_header_splits, Collected)
           ELSE md_header_splits
    /\ current_content' = <<>>
    /\ chunk_pc' = "enrich"
    /\ UNCHANGED <<doc_lines, pos, header_stack, current_metadata, current_start,
                   chunks, next_uuid, first_uuid>>
    /\ UNCHANGED <<ingestVars, botVars, formatVars>>

\* ingest.py 99: str(uuid4())
Uuid(n) == <<"uuid", n>>

\* A faulty variant of "a and b": the operands exchanged
AndValueSwapped(a, b) == IF b = 0 THEN b ELSE a

\* Python's "a and b" on two integers (ingest.py 109)
AndValue(a, b) == IF a = 0 THEN a ELSE b

\* ingest.py 109
LinksOf(content) ==
    AndValue(Count(content, <<"[">>), Count(content, <<"]", "(">>))

\* ingest.py 135: int(key.split(' ')[1])
HeaderKeyLevel(key) ==
    CASE key = "Header 1" -> 1
      [] key = "Header 2" -> 2
      [] key = "Header 3" -> 3
      [] key = "Header 4" -> 4
      [] key = "Header 5" -> 5
      [] key = "Header 6" -> 6

\* ingest.py 131-136: header_levels, level -> title
HeaderLevels(metadata) ==
    [l \in {HeaderKeyLevel(k) : k \in DOMAIN metadata} |->
        metadata[CHOOSE k \in DOMAIN metadata : HeaderKeyLevel(k) = l]]

\* The blank characters of the model's texts
Whitespace == {Space, Newline}

\* ingest.py 204: the characters keywords_estimate strips from a word
Punctuation == {".", ",", "!", "?", ";", ":", "\"", "(", ")", "[", "]", "{", "}"}

\* str.isalpha() is true of these characters
Letters ==
    {"a", "b", "c", "d", "e", "f", "g", "h", "i", "j", "k", "l", "m",
     "n", "o", "p", "q", "r", "s", "t", "u", "v", "w", "x", "y", "z",
     "A", "B", "C", "D", "E", "F", "G", "H", "I", "J", "K", "L", "M",
     "N", "O", "P", "Q", "R", "S", "T", "U", "V", "W", "X", "Y", "Z"}

\* str.lstrip(chars), str.rstrip(chars), str.strip(chars)
RECURSIVE LStrip(_, _)
LStrip(s, chars) ==
    IF s # <<>> /\ Head(s) \in chars THEN LStrip(Tail(s), chars) ELSE s

RECURSIVE RStrip(_, _)
RStrip(s, chars) ==
    IF s # <<>> /\ s[Len(s)] \in chars
    THEN RStrip(SubSeq(s, 1, Len(s) - 1), chars)
    ELSE s

StripOf(s, chars) == RStrip(LStrip(s, chars), chars)

\* str.strip()
Strip(s) == StripOf(s, Whitespace)

\* str.split(): the words between runs of blanks
RECURSIVE Words(_)
Words(s) ==
    LET t == LStrip(s, Whitespace)
    IN  IF t = <<>> THEN <<>>
        ELSE LET ends == {k \in DOMAIN t : t[k] \in Whitespace}
                 k == IF ends = {} THEN Len(t) + 1
                      ELSE CHOOSE e \in ends : \A f \in ends : e <= f
             IN  <<SubSeq(t, 1, k - 1)>> \o Words(SubSeq(t, k, Len(t)))

\* str.isalpha()
IsAlpha(word) == word # <<>> /\ \A i \in DOMAIN word : word[i] \in Letters

\* ingest.py 206: the test a word of the content has to pass
IsKeyword(word) == Len(word) > 3 /\ IsAlpha(word)

\* ingest.py 204-206: keywords_estimate
KeywordsEstimate(content) ==
    Cardinality({StripOf(Lower(word), Punctuation) :
                    word \in {w \in Range(Words(content)) : IsKeyword(w)}})

\* ingest.py 107: the fence marker
Fence == <<Backtick, Backtick, Backtick>>

\* ingest.py 107, 110, 111
CodeBlocksOf(content) == Count(content, Fence)
ImagesOf(content) == Count(content, <<"!", "[">>)
TablesOf(content) == Count(content, <<"|">>)

\* str(j) for the j of range(1, 100)
DigitChars == <<"0", "1", "2", "3", "4", "5", "6", "7", "8", "9">>

Decimal(j) ==
    IF j < 10 THEN <<DigitChars[j + 1]>>
    ELSE <<DigitChars[(j \div 10) + 1], DigitChars[(j % 10) + 1]>>

\* ingest.py 112-113: the test of a line
IsListItem(line) ==
    LET s == Strip(line)
    IN  \/ StartsWith(s, <<"-", " ">>)
        \/ StartsWith(s, <<"*", " ">>)
        \/ StartsWith(s, <<"+", " ">>)
        \/ \E j \in 1..99 : StartsWith(s, Decimal(j) \o <<".">>)

\* ingest.py 103, 112-113
ListsOf(content) ==
    LET lines == SplitOn(content, Newline)
    IN  Cardinality({k \in DOMAIN lines : IsListItem(lines[k])})

Named(flag, name) == IF flag THEN <<name>> ELSE <<>>

\* A faulty variant of lines 116-128: 'text' is appended to every list
ContentTypesAlwaysText(code_blocks, links, images, tables, lists) ==
    Named(code_blocks > 0, "code") \o Named(links > 0, "links")
        \o Named(images > 0, "images") \o Named(tables > 0, "tables")
        \o Named(lists > 0, "lists") \o <<"text">>

\* ingest.py 116-128: content_types
ContentTypes(code_blocks, links, images, tables, lists) ==
    LET found == Named(code_blocks > 0, "code") \o Named(links > 0, "links")
                     \o Named(images > 0, "images") \o Named(tables > 0, "tables")
                     \o Named(lists > 0, "lists")
    IN  IF found = <<>> THEN <<"text">> ELSE found

\* ingest.py 177: ','.join(content_types), each name kept whole
JoinedTypes(content_types) ==
    Join([k \in DOMAIN content_types |-> <<content_types[k]>>], <<",">>)

MaxOf(S) == CHOOSE x \in S : \A y \in S : y <= x
MinOf(S) == CHOOSE x \in S : \A y \in S : x <= y

\* A faulty variant of sorted(): the deepest level first
RECURSIVE SortedDescending(_)
SortedDescending(S) ==
    IF S = {} THEN <<>> ELSE <<MaxOf(S)>> \o SortedDescending(S \ {MaxOf(S)})

\* ingest.py 140: sorted(header_levels.keys())
RECURSIVE Sorted(_)
Sorted(S) == IF S = {} THEN <<>> ELSE <<MinOf(S)>> \o Sorted(S \ {MinOf(S)})

\* ingest.py 130, 139-141: header_path, the list of titles
HeaderPath(header_levels) ==
    LET sorted_levels == Sorted(DOMAIN header_levels)
    IN  [k \in DOMAIN sorted_levels |-> header_levels[sorted_levels[k]]]

\* ingest.py 170: the separator of ' > '.join(header_path)
PathSeparator == <<" ", ">", " ">>

\* ingest.py 144-145
MaxHeaderLevel(header_levels) ==
    IF DOMAIN header_levels # {} THEN MaxOf(DOMAIN header_levels) ELSE 0

MinHeaderLevel(header_levels) ==
    IF DOMAIN header_levels # {} THEN MinOf(DOMAIN header_levels) ELSE 0

\* A faulty variant of lines 200-201: the sum without its cap
ComplexityScoreUncapped(max_header_level, types, code_blocks, tables) ==
    max_header_level * 30 + types * 20 + code_blocks * 50 + tables * 30

\* ingest.py 200-201: complexity_score, in hundredths (the value is rounded to
\* two decimals, and every term is a multiple of 0.1)
ComplexityScore(max_header_level, types, code_blocks, tables) ==
    LET sum == max_header_level * 30 + types * 20 + code_blocks * 50 + tables * 30
    IN  IF sum < 1000 THEN sum ELSE 1000

\* ingest.py 195
PrevChunkId(done, i, id) == IF i > 1 THEN done[i - 1].chunk_id ELSE EmptyString

\* ingest.py 97-215: one round of the loop that enriches the chunks
Enrich ==
    /\ chunk_pc = "enrich"
    /\ Len(chunks) < Len(md_header_splits)
    /\ LET i == Len(chunks) + 1
           chunk == md_header_splits[i]
           content == chunk.page_content
           code_blocks == CodeBlocksOf(content)
           links == LinksOf(content)
           images == ImagesOf(content)
           tables == TablesOf(content)
           lists == ListsOf(content)
           content_types == ContentTypes(code_blocks, links, images, tables, lists)
           header_levels == HeaderLevels(chunk.metadata)
           header_path == HeaderPath(header_levels)
           max_header_level == MaxHeaderLevel(header_levels)
           min_header_level == MinHeaderLevel(header_levels)
       IN  chunks' = Append(chunks,
               [page_content |-> content,
                metadata |-> chunk.metadata,
                start |-> chunk.start,
                chunk_id |-> Uuid(next_uuid),
                chunk_index |-> i - 1,
                header_levels |-> header_levels,
                header_path |-> Join(header_path, PathSeparator),
                header_depth |-> Len(header_path),
                max_header_level |-> max_header_level,
                min_header_level |-> min_header_level,
                content_types |-> JoinedTypes(content_types),
                has_code |-> code_blocks > 0,
                has_links |-> links > 0,
                has_images |-> images > 0,
                has_tables |-> tables > 0,
                has_lists |-> lists > 0,
                code_blocks_count |-> code_blocks \div 2,
                links_count |-> links,
                images_count |-> images,
                table_rows_estimate |-> tables,
                list_items_count |-> lists,
                complexity_score |->
                    ComplexityScore(max_header_level, Len(content_types),
                                    code_blocks, tables),
                keywords_estimate |-> KeywordsEstimate(content),
                is_first_chunk |-> i = 1,
                is_last_chunk |-> i = Len(md_header_splits),
                prev_chunk_id |-> PrevChunkId(chunks, i, Uuid(next_uuid)),
                next_chunk_id |-> EmptyString])
    /\ next_uuid' = next_uuid + 1
    /\ UNCHANGED <<doc_lines, chunk_pc, pos, header_stack, current_content,
                   current_metadata, current_start, md_header_splits, first_uuid>>
    /\ UNCHANGED <<ingestVars, botVars, formatVars>>

\* A faulty variant of lines 218-220: the loop stops one chunk early
NextChunkIdSkipping(done, i) ==
    IF i < Len(done) - 1 THEN done[i + 1].chunk_id ELSE done[i].next_chunk_id

\* ingest.py 218-220
NextChunkId(done, i) ==
    IF i < Len(done) THEN done[i + 1].chunk_id ELSE done[i].next_chunk_id

\* ingest.py 217-222: the second pass over the chunks, and the return
BackfillNext ==
    /\ chunk_pc = "enrich"
    /\ Len(chunks) = Len(md_header_splits)
    /\ chunks' = [i \in DOMAIN chunks |->
                     [chunks[i] EXCEPT !.next_chunk_id = NextChunkId(chunks, i)]]
    /\ chunk_pc' = "done"
    /\ UNCHANGED <<doc_lines, pos, header_stack, current_content,
                   current_metadata, current_start, md_header_splits,
                   next_uuid, first_uuid>>
    /\ UNCHANGED <<ingestVars, botVars, formatVars>>

\* chunk_markdown_file is not running
ChunkIdle ==
    /\ doc_lines = <<>>
    /\ chunk_pc = "off"
    /\ pos = 1
    /\ header_stack = NoStack
    /\ current_content = <<>>
    /\ current_metadata = NoStack
    /\ current_start = 0
    /\ md_header_splits = <<>>
    /\ chunks = <<>>
    /\ next_uuid = 1
    /\ first_uuid = 1

----------------------------------------------------------------------------
(* bot.py: main *)

None == "None"

SystemMessage == "system_message"
HumanTemplate == "human_template"

\* A YAML mapping is modelled by the keys it has: top is the set of top-level
\* keys, and each nested mapping is the set of its own keys
Configs ==
    {c \in [loaded : {TRUE},
            top : SUBSET {"pathrag_prompt", "specialized_prompts"},
            pathrag_prompt : SUBSET {SystemMessage, HumanTemplate},
            specialized_prompts : SUBSET {SystemMessage, HumanTemplate,
                                          "api_documentation",
                                          "architecture_overview"},
            api_documentation : SUBSET {SystemMessage},
            architecture_overview : SUBSET {SystemMessage}] :
        /\ "pathrag_prompt" \notin c.top => c.pathrag_prompt = {}
        /\ "specialized_prompts" \notin c.top => c.specialized_prompts = {}
        /\ "api_documentation" \notin c.specialized_prompts
               => c.api_documentation = {}
        /\ "architecture_overview" \notin c.specialized_prompts
               => c.architecture_overview = {}}

\* bot.py 13-18: what load_prompts returns when the file is missing or is not
\* YAML (Python's None)
NoConfig ==
    [loaded |-> FALSE, top |-> {}, pathrag_prompt |-> {},
     specialized_prompts |-> {}, api_documentation |-> {},
     architecture_overview |-> {}]

\* bot.py 8-18
LoadResults == Configs \cup {NoConfig}

\* Python's "not prompts_config": None and the empty mapping
Falsy(config) == ~config.loaded \/ config.top = {}

Raise == "raise"

\* A faulty variant of lines 30-33: the template is built from the API system
\* message, whatever prompt_type is
create_prompt_template_api(config, prompt_type) ==
    IF Falsy(config) \/ prompt_type \notin config.top
    THEN None
    ELSE IF SystemMessage \notin config[prompt_type] THEN Raise
    ELSE IF HumanTemplate \notin config[prompt_type] THEN Raise
    ELSE "api_documentation"

\* bot.py 20-33: None, a KeyError, or the template (named by its system message)
create_prompt_template(config, prompt_type) ==
    IF Falsy(config) \/ prompt_type \notin config.top
    THEN None
    ELSE IF SystemMessage \notin config[prompt_type] THEN Raise
    ELSE IF HumanTemplate \notin config[prompt_type] THEN Raise
    ELSE prompt_type

\* bot.py 173-176: the delimiters of the reasoning, each one token of a text
ThinkOpen == "<think>"
ThinkClose == "</think>"

\* The texts generation returns: reasoning delimiters, a letter and a blank
AnswerTokens == {ThinkOpen, ThinkClose, "a", Space}
Answers == UNION {[1..n -> AnswerTokens] : n \in 0..MaxAnswerLen}

\* main's variable answer before line 170 assigns it
NoAnswer == <<None>>

\* bot.py 173-176
CleanAnswer(text) ==
    IF ThinkOpen \in Range(text) /\ ThinkClose \in Range(text)
    THEN Strip(SplitOn(text, ThinkClose)[2])
    ELSE IF ThinkOpen \in Range(text)
    THEN Strip(SplitOn(text, ThinkOpen)[1])
    ELSE text

\* The program is not running
BotIdle ==
    /\ prompts_config = NoConfig
    /\ bot_pc = "off"
    /\ prompt = None
    /\ retrieval_chain = None
    /\ current_prompt_type = None
    /\ last_event = "none"
    /\ query = None
    /\ llm_answer = <<>>
    /\ answer = NoAnswer

\* bot.py 75-110: from load_prompts to the first prompt of the loop
Startup ==
    /\ bot_pc = "start"
    /\ LET made == create_prompt_template(prompts_config, "pathrag_prompt")
       IN  IF Falsy(prompts_config) \/ made = None
           THEN \* 77-78, 94-95: return
                /\ bot_pc' = "exited"
                /\ UNCHANGED <<prompt, retrieval_chain, current_prompt_type>>
           ELSE IF made = Raise
           THEN /\ bot_pc' = "startup_crashed"
                /\ UNCHANGED <<prompt, retrieval_chain, current_prompt_type>>
           ELSE /\ bot_pc' = "loop"
                /\ prompt' = made
                /\ retrieval_chain' = made
                /\ current_prompt_type' = "pathrag_prompt"
    /\ last_event' = "none"
    /\ UNCHANGED prompts_config
    /\ UNCHANGED <<query, llm_answer, answer>>
    /\ UNCHANGED <<ingestVars, chunkVars, formatVars>>

\* bot.py 115-117
Quit ==
    /\ bot_pc = "loop"
    /\ bot_pc' = "quit"
    /\ last_event' = "goodbye"
    /\ UNCHANGED <<prompts_config, prompt, retrieval_chain, current_prompt_type>>
    /\ query' = "quit"
    /\ UNCHANGED <<llm_answer, answer>>
    /\ UNCHANGED <<ingestVars, chunkVars, formatVars>>

\* bot.py 120-132: 'switch api'
SwitchApi ==
    /\ bot_pc = "loop"
    /\ LET made == create_prompt_template(prompts_config, "specialized_prompts")
       IN  IF made = Raise
           THEN \* the KeyError of 27-28 is raised outside the try of 158-188
                /\ bot_pc' = "loop_crashed"
                /\ last_event' = "KeyError"
                /\ UNCHANGED <<prompt, retrieval_chain, current_prompt_type>>
           ELSE IF made # None
                   /\ "api_documentation" \in prompts_config.specialized_prompts
           THEN IF SystemMessage \notin prompts_config.api_documentation
                THEN \* 125: api_config["system_message"]
                     /\ bot_pc' = "loop_crashed"
                     /\ last_event' = "KeyError"
                     /\ prompt' = made
                     /\ UNCHANGED <<retrieval_chain, current_prompt_type>>
                ELSE /\ prompt' = "api_documentation"
                     /\ retrieval_chain' = "api_documentation"
                     /\ current_prompt_type' = "api_focused"
                     /\ last_event' = "switched"
                     /\ UNCHANGED bot_pc
           ELSE /\ prompt' = made
                /\ last_event' = "ignored"
                /\ UNCHANGED <<bot_pc, retrieval_chain, current_prompt_type>>
    /\ UNCHANGED prompts_config
    /\ query' = "switch api"
    /\ UNCHANGED <<llm_answer, answer>>
    /\ UNCHANGED <<ingestVars, chunkVars, formatVars>>

\* bot.py 134-145: 'switch arch'
SwitchArch ==
    /\ bot_pc = "loop"
    /\ IF /\ "specialized_prompts" \in prompts_config.top
          /\ "architecture_overview" \in prompts_config.specialized_prompts
       THEN IF SystemMessage \notin prompts_config.architecture_overview
            THEN \* 138: arch_config["system_message"]
                 /\ bot_pc' = "loop_crashed"
                 /\ last_event' = "KeyError"
                 /\ UNCHANGED <<prompt, retrieval_chain, current_prompt_type>>
            ELSE /\ prompt' = "architecture_overview"
                 /\ retrieval_chain' = "architecture_overview"
                 /\ current_prompt_type' = "architecture_focused"
                 /\ last_event' = "switched"
                 /\ UNCHANGED bot_pc
       ELSE /\ last_event' = "ignored"
            /\ UNCHANGED <<bot_pc, prompt, retrieval_chain, current_prompt_type>>
    /\ UNCHANGED prompts_config
    /\ query' = "switch arch"
    /\ UNCHANGED <<llm_answer, answer>>
    /\ UNCHANGED <<ingestVars, chunkVars, formatVars>>

\* bot.py 147-153: 'switch default'
SwitchDefault ==
    /\ bot_pc = "loop"
    /\ LET made == create_prompt_template(prompts_config, "pathrag_prompt")
       IN  IF made \in {None, Raise}
           THEN \* create_stuff_documents_chain has no prompt to build on
                /\ bot_pc' = "loop_crashed"
                /\ last_event' = "error"
                /\ UNCHANGED <<prompt, retrieval_chain, current_prompt_type>>
           ELSE /\ prompt' = made
                /\ retrieval_chain' = made
                /\ current_prompt_type' = "pathrag_prompt"
                /\ last_event' = "switched"
                /\ UNCHANGED bot_pc
    /\ UNCHANGED prompts_config
    /\ query' = "switch default"
    /\ UNCHANGED <<llm_answer, answer>>
    /\ UNCHANGED <<ingestVars, chunkVars, formatVars>>

\* bot.py 155-156: an empty line
EmptyInput ==
    /\ bot_pc = "loop"
    /\ last_event' = "ignored"
    /\ UNCHANGED <<prompts_config, bot_pc, prompt, retrieval_chain,
                   current_prompt_type>>
    /\ query' = ""
    /\ UNCHANGED <<llm_answer, answer>>
    /\ UNCHANGED <<ingestVars, chunkVars, formatVars>>

\* bot.py 158-188: a query; invoke returns, or raises in retrieval or generation
QueryOutcomes == {"answered", "retrieval_failed", "generation_failed"}

Query(outcome) ==
    /\ bot_pc = "loop"
    /\ query' = "question"
    /\ last_event' = IF outcome = "answered" THEN "answer" ELSE "error"
    /\ answer' = IF outcome = "answered" THEN CleanAnswer(llm_answer) ELSE answer
    /\ UNCHANGED llm_answer
    /\ UNCHANGED <<prompts_config, bot_pc, prompt, retrieval_chain,
                   current_prompt_type>>
    /\ UNCHANGED <<ingestVars, chunkVars, formatVars>>

----------------------------------------------------------------------------
(* bot.py: format_context_with_metadata *)

\* dict.get(key, default)
Get(metadata, key, default) ==
    IF key \in DOMAIN metadata THEN metadata[key] ELSE default

\* bot.py 45-50: the defaults
Root == <<"R", "o", "o", "t">>
Unknown == <<"U", "n", "k", "n", "o", "w", "n">>
EmptyMapping == <<"{", "}">>

\* A chunk without metadata
NoMetadata == [key \in {} |-> EmptyString]

\* The chunks retrieval returns: content and metadata as ingest.py stored
\* them, or with keys missing
DocPool ==
    { [page_content |-> <<"#", " ", "A", Newline, "t">>,
       metadata |-> [key \in {"Header 1", "header_path", "source_file",
                               "file_path", "section_hierarchy"} |->
                        CASE key = "Header 1" -> <<"A">>
                          [] key = "header_path" -> <<"A">>
                          [] key = "source_file" -> <<"f", ".", "m", "d">>
                          [] key = "file_path" -> <<"d", "/", "f", ".", "m", "d">>
                          [] key = "section_hierarchy" ->
                                 <<"{", "1", ":", " ", "'", "A", "'", "}">>]],
      [page_content |-> <<"#", "#", "#", " ", "C">>,
       metadata |-> [key \in {"Header 1", "Header 2", "Header 3", "header_path",
                               "source_file"} |->
                        CASE key = "Header 1" -> <<"A">>
                          [] key = "Header 2" -> <<"B">>
                          [] key = "Header 3" -> <<"C">>
                          [] key = "header_path" ->
                                 <<"A", " ", ">", " ", "B", " ", ">", " ", "C">>
                          [] key = "source_file" -> <<"g", ".", "m", "d">>]],
      [page_content |-> <<"t">>, metadata |-> NoMetadata],
      [page_content |-> EmptyString, metadata |-> NoMetadata] }

RetrievedDocs == UNION {[1..n -> DocPool] : n \in 0..MaxDocs}

\* A faulty variant of line 39: enumerate(docs), which counts from 0
DocumentNumberFromZero(k) == k - 1

\* bot.py 39: enumerate(docs, 1) gives the k-th chunk the number k
DocumentNumber(k) == k

\* bot.py 53-64: the f-string; its fixed pieces are kept whole, str(i) is one
\* piece, and the values are spliced in character by character
doc_context(i, doc) ==
    LET metadata == doc.metadata
        header1 == Get(metadata, "Header 1", EmptyString)
        header2 == Get(metadata, "Header 2", EmptyString)
        header3 == Get(metadata, "Header 3", EmptyString)
        header_path == Get(metadata, "header_path", Root)
        source_file == Get(metadata, "source_file", Unknown)
        file_path == Get(metadata, "file_path", Unknown)
        section_hierarchy == Get(metadata, "section_hierarchy", EmptyMapping)
    IN  <<Newline, "===== DOCUMENT ", ToString(i), " =====", Newline>>
        \o <<"FILE: ">> \o source_file \o <<Newline>>
        \o <<"PATH: ">> \o file_path \o <<Newline>>
        \o <<"SECTION_PATH: ">> \o header_path \o <<Newline>>
        \o <<"HEADERS: H1: \"">> \o header1 \o <<"\" | H2: \"">> \o header2
        \o <<"\" | H3: \"">> \o header3 \o <<"\"", Newline>>
        \o <<"HIERARCHY: ">> \o section_hierarchy \o <<Newline>>
        \o <<Newline>>
        \o <<"CONTENT:", Newline>>
        \o doc.page_content \o <<Newline>>
        \o <<"===== END DOCUMENT ", ToString(i), " =====", Newline>>

\* bot.py 39-66: one round of the loop
FormatDocument ==
    /\ format_pc = "loop"
    /\ Len(formatted_context) < Len(docs)
    /\ LET k == Len(formatted_context) + 1
       IN  formatted_context' =
               Append(formatted_context, doc_context(DocumentNumber(k), docs[k]))
    /\ UNCHANGED <<docs, format_pc, format_result>>
    /\ UNCHANGED <<ingestVars, botVars, chunkVars>>

\* bot.py 68: "\n".join(formatted_context)
FormatReturn ==
    /\ format_pc = "loop"
    /\ Len(formatted_context) = Len(docs)
    /\ format_result' = Join(formatted_context, <<Newline>>)
    /\ format_pc' = "done"
    /\ UNCHANGED <<docs, formatted_context>>
    /\ UNCHANGED <<ingestVars, botVars, chunkVars>>

\* format_context_with_metadata is not running
FormatIdle ==
    /\ docs = <<>>
    /\ format_pc = "off"
    /\ formatted_context = <<>>
    /\ format_result = EmptyString

----------------------------------------------------------------------------
IngestIdle ==
    /\ mode = "none"
    /\ pc = "off"
    /\ fs = {}
    /\ markdown_files = <<>>
    /\ idx = 1
    /\ vector_store = {}
    /\ successful_ingestions = 0
    /\ failed_ingestions = 0
    /\ manifest = <<>>
    /\ fsAtScan = {}
    /\ attempted = {}
    /\ everIngested = {}
    /\ writeFailed = {}
    /\ noChunks = {}
    /\ reportedFailed = {}
    /\ abortedBy = {}
    /\ renamedFrom = {}
    /\ renamedTo = {}
    /\ scans = 0
    /\ faults = 0
    /\ envOps = 0

\* bot.py 70-76: main is entered with whatever prompt.yaml holds
InitBot ==
    /\ prompts_config \in LoadResults
    /\ bot_pc = "start"
    /\ prompt = None
    /\ retrieval_chain = None
    /\ current_prompt_type = None
    /\ last_event = "none"
    /\ query = None
    /\ llm_answer \in Answers
    /\ answer = NoAnswer
    /\ IngestIdle
    /\ ChunkIdle
    /\ FormatIdle

NextBot ==
    \/ Startup
    \/ Quit
    \/ SwitchApi
    \/ SwitchArch
    \/ SwitchDefault
    \/ EmptyInput
    \/ \E outcome \in QueryOutcomes : Query(outcome)

SpecBot == InitBot /\ [][NextBot]_vars

----------------------------------------------------------------------------
\* ingest.py 335-347: the mode is chosen at the prompt; the tree holds any files
InitIngest ==
    /\ mode \in {"single", "poll"}
    /\ pc = "scan"
    /\ fs \in SUBSET FilePool
    /\ markdown_files = <<>>
    /\ idx = 1
    /\ vector_store = {}
    /\ successful_ingestions = 0
    /\ failed_ingestions = 0
    /\ manifest = <<>>
    /\ fsAtScan = {}
    /\ attempted = {}
    /\ everIngested = {}
    /\ writeFailed = {}
    /\ noChunks = {}
    /\ reportedFailed = {}
    /\ abortedBy = {}
    /\ renamedFrom = {}
    /\ renamedTo = {}
    /\ scans = 0
    /\ faults = 0
    /\ envOps = 0
    /\ BotIdle
    /\ ChunkIdle
    /\ FormatIdle

NextIngest ==
    \/ Discover
    \/ \E cond \in FileConditions, storeOk \in BOOLEAN, renameOk \in BOOLEAN :
           ProcessFile(cond, storeOk, renameOk)
    \/ SleepDone
    \/ HandlerSleepDone
    \/ \E afterWrite \in BOOLEAN : Interrupt(afterWrite)
    \/ \E p \in FilePool : EnvRemove(p)
    \/ \E p \in FilePool : EnvAdd(p)

SpecIngest == InitIngest /\ [][NextIngest]_vars

----------------------------------------------------------------------------
\* ingest.py 60-93: chunk_markdown_file is called on a file that loads, after
\* the chunks of earlier files have been given their ids
InitChunk ==
    /\ doc_lines \in Documents
    /\ chunk_pc = "split"
    /\ pos = 1
    /\ header_stack = NoStack
    /\ current_content = <<>>
    /\ current_metadata = NoStack
    /\ current_start = 0
    /\ md_header_splits = <<>>
    /\ chunks = <<>>
    /\ next_uuid \in 1..(MaxPriorChunks + 1)
    /\ first_uuid = next_uuid
    /\ IngestIdle
    /\ BotIdle
    /\ FormatIdle

NextChunk ==
    \/ ScanLine
    \/ FinishSplit
    \/ Enrich
    \/ BackfillNext

SpecChunk == InitChunk /\ [][NextChunk]_vars

\* ingest.py 60-93: chunk_markdown_file is called on a file with words and
\* Markdown structure in its lines
InitEnrich ==
    /\ doc_lines \in EnrichDocuments
    /\ chunk_pc = "split"
    /\ pos = 1
    /\ header_stack = NoStack
    /\ current_content = <<>>
    /\ current_metadata = NoStack
    /\ current_start = 0
    /\ md_header_splits = <<>>
    /\ chunks = <<>>
    /\ next_uuid \in 1..(MaxPriorChunks + 1)
    /\ first_uuid = next_uuid
    /\ IngestIdle
    /\ BotIdle
    /\ FormatIdle

SpecEnrich == InitEnrich /\ [][NextChunk]_vars

----------------------------------------------------------------------------
\* bot.py 35-37: format_context_with_metadata is called on a list of chunks
InitFormat ==
    /\ docs \in RetrievedDocs
    /\ format_pc = "loop"
    /\ formatted_context = <<>>
    /\ format_result = EmptyString
    /\ IngestIdle
    /\ BotIdle
    /\ ChunkIdle

NextFormat ==
    \/ FormatDocument
    \/ FormatReturn

SpecFormat == InitFormat /\ [][NextFormat]_vars

----------------------------------------------------------------------------
(* Any one of the programs *)

Init == InitIngest \/ InitBot \/ InitChunk \/ InitEnrich \/ InitFormat

Next == NextIngest \/ NextBot \/ NextChunk \/ NextFormat

Spec == Init /\ [][Next]_vars

----------------------------------------------------------------------------
(* The claims about the ingestion tool, checked under SpecIngest *)

\* C1: in both modes, a file whose vector-store write (add_documents) failed is
\* not renamed with the `_` prefix, so the next discovery scan returns it again.
C1_WriteFailureKeepsFile ==
    \A p \in writeFailed : p \in attempted => p \notin renamedFrom

\* C2: in both modes, when the processing of one discovered file raises, every
\* other file discovered in the same scan is still attempted in that scan:
\* a scan that has ended has attempted every file it discovered.
C2_FailureContainedPerFile ==
    pc \in {"done", "sleep", "handler_sleep"}
        => attempted = Range(markdown_files)

\* C3: a KeyboardInterrupt arriving at any point of main_loop (discovery,
\* ingestion of a file, the sleep after a scan, the sleep of the generic
\* handler) is caught and stops the loop; it never leaves main_loop.
C3_InterruptStopsCleanly == pc # "interrupt_escaped"

\* The names the contract of the Corpus Walker selects: the last characters of
\* the name, compared without regard to case, spell .md or .markdown, and the
\* first character is not the underscore.
SelectedByContract(name) ==
    /\ \E ext \in {DotMd, DotMarkdown} :
          /\ Len(name) >= Len(ext)
          /\ \A k \in 1..Len(ext) :
                LowerChar(name[Len(name) - Len(ext) + k]) = ext[k]
    /\ name # <<>> => name[1] # "_"

\* C5: find_all_markdown_files returns exactly the files of the tree (at any
\* depth) whose name ends in .md or .markdown, case-insensitively, and does
\* not start with `_`, each once; so a file renamed with the `_` prefix is in
\* no later discovery result and is never handed to ingestion again.
C5_DiscoveryExact ==
    /\ Range(markdown_files) = {p \in fsAtScan : SelectedByContract(NameOf(p))}
    /\ Cardinality(Range(markdown_files)) = Len(markdown_files)
    /\ \A p \in renamedTo : p \notin Range(markdown_files) /\ p \notin everIngested
    /\ \A p \in everIngested : ~StartsWith(NameOf(p), Underscore)

\* C5's case: a later polling scan that finds work while a file renamed by
\* an earlier scan lies in the tree, next to a file with an upper-case name.
C5_RenamedFilePresentAtLaterScan ==
    /\ mode = "poll"
    /\ scans >= 1
    /\ pc = "file"
    /\ renamedTo \cap fsAtScan # {}
    /\ \E p \in Range(markdown_files) : NameOf(p) # Lower(NameOf(p))

\* C9: a file that is missing, unreadable or empty when it is chunked gives an
\* empty chunk list, and the caller takes that as nothing to ingest: nothing
\* of it is stored, it is not counted or reported as a failed ingestion, and
\* the scan goes on with the next file. (Stated for the runs in which the
\* system refuses no call, so that no other error is in play.)
C9_NoChunksIsNotAFailure ==
    faults = 0 =>
        \A p \in noChunks :
            /\ p \notin vector_store
            /\ p \notin reportedFailed
            /\ p \notin abortedBy
            /\ failed_ingestions = 0

----------------------------------------------------------------------------
(* The claims about the query loop, checked under SpecBot *)

\* C4: the query loop ends only on a quit token; no exception raised while an
\* input is handled (a failed retrieval or generation, a key missing from the
\* prompt configuration during a switch command) leaves the loop.
C4_NoErrorEndsQueryLoop == bot_pc # "loop_crashed"

\* The text of an answer outside its reasoning: what is neither a delimiter
\* nor between an opening delimiter and the closing delimiter that follows it
\* (or the end of the text, when none follows)
RECURSIVE OutsideReasoning(_, _)
OutsideReasoning(text, inside) ==
    IF text = <<>> THEN <<>>
    ELSE IF Head(text) = ThinkOpen THEN OutsideReasoning(Tail(text), TRUE)
    ELSE IF Head(text) = ThinkClose THEN OutsideReasoning(Tail(text), FALSE)
    ELSE IF inside THEN OutsideReasoning(Tail(text), TRUE)
    ELSE <<Head(text)>> \o OutsideReasoning(Tail(text), FALSE)

IsText(c) == c \notin Whitespace

\* C12: for every answer text returned by generation, the text the query loop
\* displays contains neither <think> nor </think> nor the reasoning text
\* between them, and contains all the answer text outside the delimiter pair;
\* also for an answer with text before the opening delimiter, with more than
\* one delimiter pair, and with an opening delimiter that is not closed.
C12_ReasoningStripped ==
    answer # NoAnswer =>
        /\ ThinkOpen \notin Range(answer)
        /\ ThinkClose \notin Range(answer)
        /\ SelectSeq(answer, IsText)
               = SelectSeq(OutsideReasoning(llm_answer, FALSE), IsText)

\* The label names the system message the chain in use was built with
LabelNamesChain ==
    /\ current_prompt_type = "api_focused" <=> retrieval_chain = "api_documentation"
    /\ current_prompt_type = "architecture_focused"
           <=> retrieval_chain = "architecture_overview"
    /\ current_prompt_type = "pathrag_prompt" <=> retrieval_chain = "pathrag_prompt"
    /\ current_prompt_type \in {"api_focused", "architecture_focused", "pathrag_prompt"}

\* The template a switch command asks for is not in the configuration
TemplateAbsent(input) ==
    \/ /\ input = "switch api"
       /\ "api_documentation" \notin prompts_config.specialized_prompts
    \/ /\ input = "switch arch"
       /\ "architecture_overview" \notin prompts_config.specialized_prompts

C18_Step ==
    /\ bot_pc' \in {"loop", "quit", "loop_crashed"} => LabelNamesChain'
    /\ TemplateAbsent(query') /\ bot_pc = "loop"
           => UNCHANGED <<current_prompt_type, retrieval_chain>>

\* C18: in the loop of bot.main, after any sequence of switch commands and
\* queries, current_prompt_type names the template the chain in use was last
\* built with: api_focused, architecture_focused or pathrag_prompt exactly
\* when the chain was built from the api_documentation, architecture_overview
\* or default system message; a switch command whose template is absent from
\* the configuration leaves the label and the chain as they are.
C18_LabelNamesActiveTemplate == [][C18_Step]_vars

\* C18's case: the API template was in use when a switch to the absent
\* architecture template was asked for.
C18_SwitchedThenAbsentTemplate ==
    /\ bot_pc = "loop"
    /\ current_prompt_type = "api_focused"
    /\ query = "switch arch"
    /\ TemplateAbsent(query)

----------------------------------------------------------------------------
(* The claims about chunk_markdown_file, checked under SpecChunk *)

OwnIds == {chunks[i].chunk_id : i \in DOMAIN chunks}
PriorIds == {Uuid(k) : k \in 1..(first_uuid - 1)}

\* C6: in the list chunk_markdown_file returns, chunk[i].next_chunk_id is
\* chunk[i+1].chunk_id and chunk[i+1].prev_chunk_id is chunk[i].chunk_id for
\* every i < n-1; the first prev and the last next are empty; no link refers
\* to a chunk of another document.
C6_ChunkLinksConsistent ==
    chunk_pc = "done" =>
        LET n == Len(chunks)
        IN  /\ \A i \in 1..(n - 1) :
                  /\ chunks[i].next_chunk_id = chunks[i + 1].chunk_id
                  /\ chunks[i + 1].prev_chunk_id = chunks[i].chunk_id
            /\ n >= 1 => /\ chunks[1].prev_chunk_id = EmptyString
                         /\ chunks[n].next_chunk_id = EmptyString
            /\ \A i, j \in 1..n : i # j => chunks[i].chunk_id # chunks[j].chunk_id
            /\ \A i \in 1..n :
                  /\ chunks[i].chunk_id # EmptyString
                  /\ {chunks[i].prev_chunk_id, chunks[i].next_chunk_id}
                         \subseteq OwnIds \cup {EmptyString}
                  /\ {chunks[i].prev_chunk_id, chunks[i].next_chunk_id}
                         \cap PriorIds = {}

\* C6's case: a document of three chunks, ingested after another document.
C6_ThreeChunksAfterAnotherDocument ==
    /\ chunk_pc = "done"
    /\ Len(chunks) >= 3
    /\ first_uuid > 1

\* The level of a Markdown header line, 0 for any other line: one to six '#'
\* followed by a blank or by the end of the line.
MarkdownLevel(line) ==
    LET n == LeadingHashes(line)
    IN  IF n \in 1..6 /\ (Len(line) = n \/ line[n + 1] = Space) THEN n ELSE 0

\* The header lines of level l that are still active after line k: no header
\* line of a smaller level follows them up to k.
LiveHeaders(doc, k, l) ==
    {j \in 1..k : /\ MarkdownLevel(doc[j]) = l
                  /\ \A m \in (j + 1)..k :
                        MarkdownLevel(doc[m]) = 0 \/ MarkdownLevel(doc[m]) >= l}

Latest(S) == CHOOSE j \in S : \A m \in S : m <= j

\* The active titles after line k, level -> title
ActiveTitles(doc, k) ==
    [l \in {m \in 1..6 : LiveHeaders(doc, k, m) # {}} |->
        HeaderTitleOf(doc[Latest(LiveHeaders(doc, k, l))])]

C7_Step ==
    /\ (chunk_pc = "split" /\ pos <= Len(doc_lines) /\ pos' = pos + 1
            /\ MarkdownLevel(doc_lines[pos]) # 0)
        => LET L == MarkdownLevel(doc_lines[pos])
           IN  /\ L \in DOMAIN header_stack'
               /\ header_stack'[L].title = HeaderTitleOf(doc_lines[pos])
               /\ \A l \in DOMAIN header_stack' : l <= L
               /\ \A l \in 1..(L - 1) :
                     /\ l \in DOMAIN header_stack <=> l \in DOMAIN header_stack'
                     /\ l \in DOMAIN header_stack => header_stack'[l] = header_stack[l]
    /\ chunk_pc' = "done"
        => \A i \in DOMAIN chunks' :
              chunks'[i].header_levels = ActiveTitles(doc_lines, chunks'[i].start)

\* C7: while the splitter scans the lines, a header line of level L sets the
\* active title of level L, removes every active title of a level greater
\* than L and leaves those of the smaller levels as they are; each chunk
\* carries (as header_levels) the header stack active at its start.
C7_HeaderStack == [][C7_Step]_vars

\* C7's case: a header of level 2 arrived while levels 1 and 3 were active.
C7_DeeperLevelCleared ==
    /\ chunk_pc = "done"
    /\ \E i, j \in DOMAIN chunks :
          /\ i < j
          /\ DOMAIN chunks[i].header_levels = {1, 3}
          /\ DOMAIN chunks[j].header_levels = {1, 2}

RECURSIVE Flatten(_)
Flatten(seqs) == IF seqs = <<>> THEN <<>> ELSE Head(seqs) \o Flatten(Tail(seqs))

NotBlank(line) == ~IsBlank(line)

ContentLines(list) ==
    Flatten([i \in DOMAIN list |-> SplitOn(list[i].page_content, Newline)])

\* C8: the chunks of the splitter, concatenated in order, are the lines of the
\* document (blank lines aside, which the splitter drops): no line is dropped,
\* duplicated or reordered, and the header lines are in the chunk content.
C8_ChunksReproduceDocument ==
    /\ chunk_pc = "enrich"
           => ContentLines(md_header_splits) = SelectSeq(doc_lines, NotBlank)
    /\ chunk_pc = "done"
           => ContentLines(chunks) = SelectSeq(doc_lines, NotBlank)

\* C8's case: a document whose second chunk starts with a header line, with a
\* blank line in it.
C8_HeaderInsideLaterChunk ==
    /\ chunk_pc = "done"
    /\ Len(chunks) >= 2
    /\ MarkdownLevel(doc_lines[chunks[2].start]) # 0
    /\ \E k \in DOMAIN doc_lines : IsBlank(doc_lines[k])

Brackets(content) == Count(content, <<"[">>)
LinkMarks(content) == Count(content, <<"]", "(">>)

\* C10 as claimed: links_count is nonzero only if the content contains both
\* `[` and `](`; when it contains both, links_count is the number of `[` in the
\* content, and otherwise it is 0.
C10_LinksCountIsBracketCount ==
    \A i \in DOMAIN chunks :
        LET c == chunks[i].page_content
            both == Brackets(c) > 0 /\ LinkMarks(c) > 0
        IN  /\ chunks[i].links_count # 0 => both
            /\ both => chunks[i].links_count = Brackets(c)
            /\ ~both => chunks[i].links_count = 0

\* C10 as amended: links_count is nonzero only if the content contains both
\* `[` and `](`; when it contains both, links_count is the number of `](` in
\* the content, and otherwise it is 0.
C10_LinksCountIsLinkMarkCount ==
    \A i \in DOMAIN chunks :
        LET c == chunks[i].page_content
            both == Brackets(c) > 0 /\ LinkMarks(c) > 0
        IN  /\ chunks[i].links_count # 0 => both
            /\ both => chunks[i].links_count = LinkMarks(c)
            /\ ~both => chunks[i].links_count = 0

\* C10's case: a chunk with more `[` than `](`, and one with `[` and no `](`.
C10_MoreBracketsThanLinkMarks ==
    /\ \E i \in DOMAIN chunks :
          /\ LinkMarks(chunks[i].page_content) > 0
          /\ Brackets(chunks[i].page_content) > LinkMarks(chunks[i].page_content)
    /\ \E i \in DOMAIN chunks :
          /\ LinkMarks(chunks[i].page_content) = 0
          /\ Brackets(chunks[i].page_content) > 0

\* The titles of a header-level mapping from level l on, shallowest first
RECURSIVE TitlesFrom(_, _)
TitlesFrom(levels, l) ==
    IF l > 6 THEN <<>>
    ELSE (IF l \in DOMAIN levels THEN <<levels[l]>> ELSE <<>>)
             \o TitlesFrom(levels, l + 1)

\* C15: for every chunk, header_path is the titles of the active header levels
\* in ascending level order joined with " > ", header_depth is the number of
\* entries of the active header-level mapping, and max_header_level and
\* min_header_level are the largest and the smallest active level; with an
\* empty header stack both are 0, header_path is empty and header_depth is 0.
C15_HeaderPathAndDepth ==
    \A i \in DOMAIN chunks :
        LET c == chunks[i]
            active == DOMAIN c.header_levels
        IN  /\ c.header_path = Join(TitlesFrom(c.header_levels, 1), <<" ", ">", " ">>)
            /\ c.header_depth = Cardinality(active)
            /\ active # {} =>
                  /\ c.max_header_level \in active
                  /\ c.min_header_level \in active
                  /\ \A l \in active :
                        c.min_header_level <= l /\ l <= c.max_header_level
            /\ active = {} =>
                  /\ c.max_header_level = 0
                  /\ c.min_header_level = 0
                  /\ c.header_path = EmptyString
                  /\ c.header_depth = 0

\* C15's case: a chunk before any header, and a chunk under the headers of
\* levels 1 and 3.
C15_EmptyStackAndTwoLevels ==
    /\ \E i \in DOMAIN chunks : DOMAIN chunks[i].header_levels = {}
    /\ \E i \in DOMAIN chunks :
          /\ DOMAIN chunks[i].header_levels = {1, 3}
          /\ chunks[i].header_depth = 2

----------------------------------------------------------------------------
(* The claims about the enrichment of a chunk, checked under SpecEnrich *)

\* The words of the content with the punctuation stripped from both ends
StrippedWords(content) ==
    {StripOf(w, Punctuation) : w \in Range(Words(content))}

\* C11: for every chunk, keywords_estimate is the number of distinct values
\* obtained by splitting the content on whitespace, stripping the punctuation
\* .,!?;:"()[]{} from both ends of each token, keeping the stripped tokens that
\* are alphabetic and longer than 3 characters, and lowercasing them; a word
\* followed by a comma or a period is counted.
C11_KeywordsStrippedThenFiltered ==
    \A i \in DOMAIN chunks :
        chunks[i].keywords_estimate =
            Cardinality({Lower(t) : t \in {x \in StrippedWords(chunks[i].page_content) :
                                              Len(x) > 3 /\ IsAlpha(x)}})

\* The names in a stored content_types value
TypeNames(joined) == Range(joined) \ {","}

\* The sum of the complexity formula for a chunk, in hundredths
ComplexitySum(c) ==
    c.max_header_level * 30 + Cardinality(TypeNames(c.content_types)) * 20
        + Count(c.page_content, Fence) * 50 + Count(c.page_content, <<"|">>) * 30

\* C13: for every chunk, complexity_score is min(max_header_level*0.3 +
\* content_type_count*0.2 + fence_marker_count*0.5 + table_marker_count*0.3,
\* 10.0) and lies in [0, 10], for any number of fence markers and of `|` and
\* any header level 0..6 (the score is held in hundredths).
C13_ComplexityScoreCapped ==
    \A i \in DOMAIN chunks :
        LET c == chunks[i]
        IN  /\ ComplexitySum(c) <= 1000 => c.complexity_score = ComplexitySum(c)
            /\ ComplexitySum(c) > 1000 => c.complexity_score = 1000
            /\ c.complexity_score >= 0
            /\ c.complexity_score <= 1000

\* C13's case: a chunk under a header of level 6 whose sum is above the cap.
C13_SumAboveCap ==
    \E i \in DOMAIN chunks :
        /\ ComplexitySum(chunks[i]) > 1000
        /\ chunks[i].max_header_level = 6

\* One of the five structural markers is in the content
MarkerDetected(content) ==
    \/ Count(content, Fence) > 0
    \/ Count(content, <<"[">>) > 0 /\ Count(content, <<"]", "(">>) > 0
    \/ Count(content, <<"!", "[">>) > 0
    \/ Count(content, <<"|">>) > 0
    \/ \E line \in Range(SplitOn(content, Newline)) : IsListItem(line)

\* C14: for every chunk, content_types is a non-empty subset of {code, links,
\* images, tables, lists, text}; it contains text exactly when none of the
\* five structural markers is detected in the content, and text is then its
\* only entry.
C14_ContentTypesNeverEmpty ==
    \A i \in DOMAIN chunks :
        LET types == TypeNames(chunks[i].content_types)
        IN  /\ types # {}
            /\ types \subseteq {"code", "links", "images", "tables", "lists", "text"}
            /\ "text" \in types <=> ~MarkerDetected(chunks[i].page_content)
            /\ "text" \in types => types = {"text"}

\* C14's case: a chunk of plain text, and a chunk with two kinds of marker.
C14_TextOnlyAndTwoTypes ==
    /\ \E i \in DOMAIN chunks : chunks[i].content_types = <<"text">>
    /\ \E i \in DOMAIN chunks :
          Cardinality(TypeNames(chunks[i].content_types)) >= 2

\* C17: for every chunk, each structure flag agrees with its count: has_code
\* is true exactly when code_blocks_count > 0, has_links exactly when
\* links_count > 0, has_images exactly when images_count > 0, has_tables
\* exactly when table_rows_estimate > 0, and has_lists exactly when
\* list_items_count > 0; also for a content with a single, unpaired code fence.
C17_FlagsAgreeWithCounts ==
    \A i \in DOMAIN chunks :
        LET c == chunks[i]
        IN  /\ c.has_code <=> c.code_blocks_count > 0
            /\ c.has_links <=> c.links_count > 0
            /\ c.has_images <=> c.images_count > 0
            /\ c.has_tables <=> c.table_rows_estimate > 0
            /\ c.has_lists <=> c.list_items_count > 0

----------------------------------------------------------------------------
(* The claims about format_context_with_metadata, checked under SpecFormat *)

StartMarker(i) == <<"===== DOCUMENT ", ToString(i), " =====">>
EndMarker(i) == <<"===== END DOCUMENT ", ToString(i), " =====">>

\* The places of text where pat is
Places(text, pat) ==
    {p \in 1..(Len(text) - Len(pat) + 1) : SubSeq(text, p, p + Len(pat) - 1) = pat}

\* The first place from `from` on where pat is in text; 0 when there is none
PlaceOf(text, pat, from) ==
    LET places == {p \in Places(text, pat) : p >= from}
    IN  IF places = {} THEN 0 ELSE CHOOSE p \in places : \A q \in places : p <= q

\* The text returned for the chunks docs has one block per chunk
OneBlockPerChunk ==
    LET n == Len(docs)
        text == format_result
    IN  /\ n = 0 => text = EmptyString
        /\ Cardinality(Places(text, <<"===== DOCUMENT ">>)) = n
        /\ Cardinality(Places(text, <<"===== END DOCUMENT ">>)) = n
        /\ \A i \in 1..n :
              LET start == PlaceOf(text, StartMarker(i), 1)
                  content == PlaceOf(text, <<"CONTENT:", Newline>>, start)
                  end == PlaceOf(text, EndMarker(i), start)
              IN  /\ Cardinality(Places(text, StartMarker(i))) = 1
                  /\ Cardinality(Places(text, EndMarker(i))) = 1
                  /\ start < content /\ content < end
                  /\ SubSeq(text, content + 2, end - 2) = docs[i].page_content
                  /\ i < n => end < PlaceOf(text, StartMarker(i + 1), 1)

C16_Step ==
    /\ docs' = docs
    /\ UNCHANGED <<ingestVars, botVars, chunkVars>>
    /\ format_pc' = "done" => OneBlockPerChunk'

\* C16: format_context_with_metadata, given a sequence of n retrieved chunks,
\* returns the empty string when n = 0 and otherwise a text with exactly one
\* start marker and one end marker per chunk, numbered 1..n in the order of
\* the input, each block carrying that chunk's content; it changes neither
\* the chunks nor any other state, and the text depends on the chunks only.
C16_OneBlockPerChunkInOrder == [][C16_Step]_vars

\* C16's case: three chunks were formatted, two of them the same chunk, one
\* without metadata and one with an empty content.
C16_ThreeChunksFormatted ==
    /\ format_pc = "done"
    /\ Len(docs) >= 3
    /\ docs[1] = docs[3]
    /\ docs[2].metadata = NoMetadata
    /\ docs[1].page_content = EmptyString

====
